---- MODULE Spec2Model ----
(***************************************************************************)
(* Model of the invoice ETL pipeline: Extract (first balanced JSON object  *)
(* of a model response), Transform (alias resolution, text cleaning,       *)
(* numeric coercion), Load (incremental upsert into documents/line_items   *)
(* inside one transaction per batch) and the two triggers of app.py (the   *)
(* /trigger route and the SQS listener thread).                            *)
(*                                                                         *)
(* A text is a sequence of tokens.  "{" and "}" are the brace characters   *)
(* the scan of Extract counts; every other token stands for a chunk of     *)
(* text without braces: "p" prose, "[" "]" list brackets, "l" the key      *)
(* "line_items":, "k" the key "meta":, and the member tokens of            *)
(* MemberDict, each a few complete "key": value members.                   *)
(***************************************************************************)
EXTENDS Integers, Sequences, FiniteSets, TLC

VARIABLES
    fn, arg, res,          \* pure-function harness: function applied, input, result
    docs, items,           \* committed rows of documents and line_items
    nextDocId, nextItemId, \* the SERIAL sequences of the two tables
    pc,                    \* position of each run of run_etl
    transformed,           \* transformed_data of each run, in dict order
    pos,                   \* index of the document load() is at
    existing,              \* result of the SELECT for that document
    tx,                    \* uncommitted writes of each run's connection
    conn,                  \* state of the connection of each run's latest Load
    outcome, cause,        \* what the run reported, and the stage that raised
    started                \* number of batches started

pureVars == <<fn, arg, res>>
etlVars == <<docs, items, nextDocId, nextItemId, pc, transformed, pos, existing,
             tx, conn, outcome, cause, started>>
vars == <<fn, arg, res, docs, items, nextDocId, nextItemId, pc, transformed, pos,
          existing, tx, conn, outcome, cause, started>>

----------------------------------------------------------------------------
(* Bounds *)

MaxTextLen == 5     \* length of the raw texts given to the parser
MaxStrLen == 3      \* length of the strings given to the cleaners
MaxBatches == 2     \* batches started in one behaviour

----------------------------------------------------------------------------
(* JSON values: tagged records.  A decimal number is coef * 10^(-exp),     *)
(* normalised so that no trailing fraction zero is kept.                   *)

Str(s) == [t |-> "str", v |-> s]
IntV(n) == [t |-> "int", v |-> n]
FloatV(c, e) == [t |-> "float", v |-> <<c, e>>]
BoolV(b) == [t |-> "bool", v |-> b]
Null == [t |-> "null", v |-> 0]
ListV(l) == [t |-> "list", v |-> l]
DictV(d) == [t |-> "dict", v |-> d]

EmptyDict == [k \in {} |-> Null]

Merge(a, b) ==
    [k \in DOMAIN a \cup DOMAIN b |-> IF k \in DOMAIN b THEN b[k] ELSE a[k]]

Put(d, k, v) == Merge(d, [x \in {k} |-> v])

\* dict.get(k, default)
Get(d, k, default) == IF k \in DOMAIN d THEN d[k] ELSE default

NA == <<"N", "/", "A">>

----------------------------------------------------------------------------
(* json.loads on a token text.  Object ::= "{" Member* "}";                *)
(* Member ::= member token | "k" Object | "l" "[" Object* "]".             *)

MemberDict ==
    [ m   |-> [document_id |-> Str(<<"I", "1">>), name |-> Str(<<"A", "c">>)],
      m2  |-> [id |-> Str(<<"I", "2">>), supplier |-> Str(<<" ", "B", " ", " ", "b", " ">>),
               desc |-> Str(<<"x">>)],
      w   |-> [item |-> Str(<<"W">>), qty |-> Str(<<"2">>),
               price |-> Str(<<"1", "0", ",", "5", "0">>)],
      g   |-> [description |-> Str(<<"G">>), quantity |-> IntV(3),
               unit |-> FloatV(25, 1), amount |-> Str(<<"7", ".", "5">>)],
      big |-> [item |-> Str(<<"H">>),
               quantity |-> Str(<<"1", "0", "0", "0", "0", "0", "0", "0", "0">>)],
      tq  |-> [item |-> Str(<<"T">>), quantity |-> BoolV(TRUE)] ]

Bad == [ok |-> FALSE, val |-> EmptyDict, next |-> 0]
BadList == [ok |-> FALSE, val |-> <<>>, next |-> 0]

\* the one element of a singleton set; a sub-parse is bound through a
\* singleton set, so that its value is computed once
The(S) == CHOOSE x \in S : TRUE

RECURSIVE ParseObject(_, _), ParseMembers(_, _, _), ParseList(_, _, _)

\* an object starting at s[i]: [ok, val, next], next the index after its "}"
ParseObject(s, i) ==
    IF i > Len(s) \/ s[i] # "{" THEN Bad ELSE ParseMembers(s, i + 1, EmptyDict)

ParseMembers(s, i, acc) ==
    IF i > Len(s) THEN Bad
    ELSE IF s[i] = "}" THEN [ok |-> TRUE, val |-> acc, next |-> i + 1]
    ELSE IF s[i] \in DOMAIN MemberDict
        THEN ParseMembers(s, i + 1, Merge(acc, MemberDict[s[i]]))
    ELSE IF s[i] = "k"
        THEN The({IF o.ok THEN ParseMembers(s, o.next, Put(acc, "meta", DictV(o.val)))
                  ELSE Bad : o \in {ParseObject(s, i + 1)}})
    ELSE IF s[i] = "l" /\ i + 1 <= Len(s) /\ s[i + 1] = "["
        THEN The({IF l.ok
                  THEN ParseMembers(s, l.next, Put(acc, "line_items", ListV(l.val)))
                  ELSE Bad : l \in {ParseList(s, i + 2, <<>>)}})
    ELSE Bad

ParseList(s, i, acc) ==
    IF i > Len(s) THEN BadList
    ELSE IF s[i] = "]" THEN [ok |-> TRUE, val |-> acc, next |-> i + 1]
    ELSE The({IF o.ok THEN ParseList(s, o.next, Append(acc, DictV(o.val)))
              ELSE BadList : o \in {ParseObject(s, i)}})

\* json.loads(span): the parsed dict, or a JSONDecodeError
JsonLoads(span) ==
    LET o == ParseObject(span, 1)
    IN  IF o.ok /\ o.next = Len(span) + 1
        THEN [ok |-> TRUE, val |-> o.val]
        ELSE [ok |-> FALSE, val |-> EmptyDict]

----------------------------------------------------------------------------
(* Extract.extract_text_from_images, the part after the model call.        *)

\* text.find('{'): the first index holding "{", 0 for Python's -1
Find(text) ==
    IF \E i \in 1..Len(text) : text[i] = "{"
    THEN CHOOSE i \in 1..Len(text) :
            text[i] = "{" /\ \A j \in 1..(i - 1) : text[j] # "{"
    ELSE 0

RECURSIVE ScanEnd(_, _, _)
\* the for loop over range(start, len(text)): the index of the "}" at which
\* brace_count is back to 0, or 0 when the loop ends without a break
ScanEnd(text, idx, brace_count) ==
    IF idx > Len(text) THEN 0
    ELSE IF text[idx] = "{" THEN ScanEnd(text, idx + 1, brace_count + 1)
    ELSE IF text[idx] = "}"
        THEN IF brace_count - 1 = 0 THEN idx
             ELSE ScanEnd(text, idx + 1, brace_count - 1)
    ELSE ScanEnd(text, idx + 1, brace_count)

SliceOffByOne(text, start, idx) == SubSeq(text, start, idx - 1)

\* text[start:idx+1] with idx the index of the closing brace
SpanOf(text, start, idx) == SubSeq(text, start, idx)

\* One iteration of the loop body for a response text: "skip" (nothing is
\* recorded for the input), "ok" (val is recorded), or "raise" (json.loads
\* raised; the exception leaves extract_text_from_images).
ParseResponse(text) ==
    LET start == Find(text)
        idx == IF start = 0 THEN 0 ELSE ScanEnd(text, start, 0)
    IN  IF start = 0 \/ idx = 0
        THEN [kind |-> "skip", span |-> <<>>, val |-> EmptyDict]
        ELSE LET span == SpanOf(text, start, idx)
                 j == JsonLoads(span)
             IN  IF j.ok THEN [kind |-> "ok", span |-> span, val |-> j.val]
                 ELSE [kind |-> "raise", span |-> span, val |-> EmptyDict]

----------------------------------------------------------------------------
(* Transform.  A Python str is a sequence of one-character strings; the    *)
(* result of _to_decimal is a decimal <<coef, exp>> = coef * 10^(-exp).    *)

Whitespace == {" ", "\t", "\n"}
DigitSeq == <<"0", "1", "2", "3", "4", "5", "6", "7", "8", "9">>
Digit == {DigitSeq[i] : i \in 1..Len(DigitSeq)}
DigitVal(c) == (CHOOSE i \in 1..Len(DigitSeq) : DigitSeq[i] = c) - 1

Abs(n) == IF n < 0 THEN -n ELSE n

RECURSIVE Digits(_)
\* the decimal digits of n >= 0
Digits(n) ==
    IF n < 10 THEN <<DigitSeq[n + 1]>>
    ELSE Append(Digits(n \div 10), DigitSeq[(n % 10) + 1])

RECURSIVE Normal(_, _)
\* the decimal coef * 10^(-exp) without trailing fraction zeros
Normal(coef, exp) ==
    IF coef = 0 THEN <<0, 0>>
    ELSE IF exp > 0 /\ coef % 10 = 0 THEN Normal(coef \div 10, exp - 1)
    ELSE <<coef, exp>>

RECURSIVE ZeroPad(_, _)
ZeroPad(s, n) == IF Len(s) >= n THEN s ELSE ZeroPad(<<"0">> \o s, n)

\* str(int)
StrInt(n) == IF n < 0 THEN <<"-">> \o Digits(-n) ELSE Digits(n)

\* str(float) of a finite float in positional notation
StrFloat(c, e) ==
    LET d == ZeroPad(Digits(Abs(c)), e + 1)
        body == IF e = 0 THEN d \o <<".", "0">>
                ELSE SubSeq(d, 1, Len(d) - e) \o <<".">> \o SubSeq(d, Len(d) - e + 1, Len(d))
    IN  IF c < 0 THEN <<"-">> \o body ELSE body

RECURSIVE Join(_, _)
Join(parts, sep) ==
    IF parts = <<>> THEN <<>>
    ELSE IF Len(parts) = 1 THEN parts[1]
    ELSE parts[1] \o sep \o Join(Tail(parts), sep)

RECURSIVE KeySeq(_)
\* the keys of a dict in one fixed order
KeySeq(S) == IF S = {} THEN <<>> ELSE LET k == CHOOSE x \in S : TRUE IN <<k>> \o KeySeq(S \ {k})

RECURSIVE PyStr(_), PyRepr(_)
\* str(value)
PyStr(x) ==
    CASE x.t = "str" -> x.v
      [] x.t = "int" -> StrInt(x.v)
      [] x.t = "float" -> StrFloat(x.v[1], x.v[2])
      [] x.t = "bool" -> IF x.v THEN <<"T", "r", "u", "e">> ELSE <<"F", "a", "l", "s", "e">>
      [] x.t = "null" -> <<"N", "o", "n", "e">>
      [] x.t = "list" ->
            <<"[">> \o Join([i \in 1..Len(x.v) |-> PyRepr(x.v[i])], <<",", " ">>) \o <<"]">>
      [] x.t = "dict" ->
            LET ks == KeySeq(DOMAIN x.v)
            IN  <<"{">> \o Join([i \in 1..Len(ks) |->
                           <<"'", ks[i], "'", ":", " ">> \o PyRepr(x.v[ks[i]])], <<",", " ">>)
                \o <<"}">>

PyRepr(x) == IF x.t = "str" THEN <<"'">> \o x.v \o <<"'">> ELSE PyStr(x)

\* bool(value) is False
Falsy(x) ==
    CASE x.t = "str" -> x.v = <<>>
      [] x.t = "int" -> x.v = 0
      [] x.t = "float" -> x.v[1] = 0
      [] x.t = "bool" -> ~x.v
      [] x.t = "null" -> TRUE
      [] x.t = "list" -> x.v = <<>>
      [] x.t = "dict" -> DOMAIN x.v = {}

RECURSIVE LStrip(_)
LStrip(s) == IF s # <<>> /\ s[1] \in Whitespace THEN LStrip(Tail(s)) ELSE s

RECURSIVE RStrip(_)
RStrip(s) ==
    IF s # <<>> /\ s[Len(s)] \in Whitespace THEN RStrip(SubSeq(s, 1, Len(s) - 1)) ELSE s

\* str.strip()
Strip(s) == RStrip(LStrip(s))

RECURSIVE Collapse(_)
\* re.sub(r'\s+', ' ', s)
Collapse(s) ==
    IF s = <<>> THEN <<>>
    ELSE IF s[1] \in Whitespace THEN <<" ">> \o Collapse(LStrip(s))
    ELSE <<s[1]>> \o Collapse(Tail(s))

\* Transform._clean_text
CleanText(text) ==
    IF Falsy(text) \/ text = Str(NA) THEN NA
    ELSE Collapse(Strip(PyStr(text)))

RECURSIVE Keep(_, _)
Keep(s, S) ==
    IF s = <<>> THEN <<>>
    ELSE IF s[1] \in S THEN <<s[1]>> \o Keep(Tail(s), S)
    ELSE Keep(Tail(s), S)

RECURSIVE Count(_, _)
Count(s, c) == IF s = <<>> THEN 0 ELSE (IF s[1] = c THEN 1 ELSE 0) + Count(Tail(s), c)

RECURSIVE DigitsVal(_)
\* the integer a sequence of digits denotes
DigitsVal(s) == IF s = <<>> THEN 0 ELSE DigitsVal(SubSeq(s, 1, Len(s) - 1)) * 10 + DigitVal(s[Len(s)])

\* Decimal(s) for s over digits, ".", "-": [ok, val]; ok = FALSE is
\* decimal.InvalidOperation
ParseDecimal(s) ==
    LET neg == s # <<>> /\ s[1] = "-"
        body == IF neg THEN Tail(s) ELSE s
        ds == Keep(body, Digit)
        valid == /\ Count(body, "-") = 0
                 /\ Count(body, ".") <= 1
                 /\ ds # <<>>
                 /\ \A i \in 1..Len(body) : body[i] \in Digit \cup {"."}
        dot == IF Count(body, ".") = 1
               THEN CHOOSE i \in 1..Len(body) : body[i] = "."
               ELSE Len(body) + 1
        frac == IF dot > Len(body) THEN 0 ELSE Len(body) - dot
        mag == DigitsVal(ds)
    IN  IF valid THEN [ok |-> TRUE, val |-> Normal(IF neg THEN -mag ELSE mag, frac)]
        ELSE [ok |-> FALSE, val |-> <<0, 0>>]

\* re.sub(r'[^\d.,\-]', '', value).replace(',', '.')
CleanNumber(s) ==
    LET kept == Keep(s, Digit \cup {".", ",", "-"})
    IN  [i \in 1..Len(kept) |-> IF kept[i] = "," THEN "." ELSE kept[i]]

Returned(v) == [raised |-> FALSE, val |-> v]
Raised == [raised |-> TRUE, val |-> <<0, 0>>]

\* Transform._to_decimal: a Python bool is an int, so it takes the first
\* branch, where Decimal("True") raises outside the try
ToDecimal(value) ==
    IF value.t \in {"int", "float", "bool"}
    THEN LET d == ParseDecimal(PyStr(value)) IN IF d.ok THEN Returned(d.val) ELSE Raised
    ELSE IF value.t = "str"
    THEN LET d == ParseDecimal(CleanNumber(value.v))
         IN  IF d.ok THEN Returned(d.val) ELSE Returned(<<0, 0>>)
    ELSE Returned(<<0, 0>>)

\* the dict built for one line item
CleanItem(item) ==
    LET q == ToDecimal(Get(item, "quantity", Get(item, "qty", IntV(0))))
        u == ToDecimal(Get(item, "unit_price", Get(item, "price", Get(item, "unit", IntV(0)))))
        tot == ToDecimal(Get(item, "total", Get(item, "amount", IntV(0))))
    IN  [raised |-> q.raised \/ u.raised \/ tot.raised,
         val |-> [item |-> CleanText(Get(item, "item",
                             Get(item, "description", Get(item, "name", Str(NA))))),
                  quantity |-> q.val, unit_price |-> u.val, total |-> tot.val]]

RECURSIVE CleanItemsFrom(_, _)
CleanItemsFrom(l, i) ==
    IF i > Len(l) THEN [raised |-> FALSE, val |-> <<>>]
    ELSE LET rest == CleanItemsFrom(l, i + 1)
         IN  IF l[i].t # "dict" THEN rest
             ELSE LET c == CleanItem(l[i].v)
                  IN  [raised |-> c.raised \/ rest.raised, val |-> <<c.val>> \o rest.val]

\* Transform._clean_line_items
CleanLineItems(its) ==
    IF Falsy(its) \/ its.t # "list" THEN [raised |-> FALSE, val |-> <<>>]
    ELSE CleanItemsFrom(its.v, 1)

\* Transform._clean_document
CleanDocument(doc) ==
    LET li == CleanLineItems(Get(doc, "line_items", Get(doc, "items", ListV(<<>>))))
    IN  [raised |-> li.raised,
         val |-> [document_id |-> CleanText(Get(doc, "document_id",
                                    Get(doc, "id", Get(doc, "number", Str(NA))))),
                  name |-> CleanText(Get(doc, "name", Get(doc, "contractor",
                                    Get(doc, "supplier", Get(doc, "client", Str(NA)))))),
                  description |-> CleanText(Get(doc, "description",
                                    Get(doc, "desc", Str(NA)))),
                  line_items |-> li.val]]

----------------------------------------------------------------------------
(* The store: PostgreSQL at READ COMMITTED.  A run's connection holds its  *)
(* uncommitted writes; a statement sees the committed rows under them.     *)

Runs == {"trigger", "sqs"}
ImageNames == {"000", "001"}

\* f'{i}.jpg'
FileOf(i) == IF i = "000" THEN "000.jpg" ELSE "001.jpg"

EmptyTx == [insDocs |-> {}, updDocs |-> {}, delItems |-> {}, insItems |-> {}]

Ids(rows) == {x.id : x \in rows}

\* what the statements of a connection with pending writes t see
View(store, t) ==
    [docs |-> {d \in store.docs : d.id \notin Ids(t.updDocs)} \cup t.updDocs \cup t.insDocs,
     items |-> {i \in store.items : i.id \notin t.delItems} \cup t.insItems]

AutocommitOn == TRUE

\* psycopg2's default, which Load.__init__ leaves alone: statements run in
\* a transaction that ends at conn.commit()
Autocommit == FALSE

NoUniqueFilename == FALSE

\* documents.filename is declared UNIQUE
UniqueFilename == TRUE

\* DECIMAL(10,2)
NumericPrecision == 10
NumericScale == 2

RECURSIVE Pow10(_)
Pow10(n) == IF n = 0 THEN 1 ELSE 10 * Pow10(n - 1)

\* A float bound to a DECIMAL(10,2) column: rounded half away from zero to
\* two places; ok = FALSE is "numeric field overflow".
Numeric(v) ==
    LET c == v[1]
        e == v[2]
        unit == Pow10(e)
        ip == Abs(c) \div unit
        fp == Abs(c) % unit
        f2 == IF e <= NumericScale THEN fp * Pow10(NumericScale - e)
              ELSE LET cut == Pow10(e - NumericScale)
                   IN  (fp \div cut) + (IF 2 * (fp % cut) >= cut THEN 1 ELSE 0)
        carry == f2 \div Pow10(NumericScale)
        whole == ip + carry
        hundredths == whole * Pow10(NumericScale) + (f2 % Pow10(NumericScale))
    IN  IF whole >= Pow10(NumericPrecision - NumericScale)
        THEN [ok |-> FALSE, val |-> <<0, 0>>]
        ELSE [ok |-> TRUE,
              val |-> Normal(IF c < 0 THEN -hundredths ELSE hundredths, NumericScale)]

\* the line_items row an item becomes, without its id and document_id
Stored(li) ==
    [item |-> li.item, quantity |-> Numeric(li.quantity).val,
     unit_price |-> Numeric(li.unit_price).val, total |-> Numeric(li.total).val]

Fits(li) == Numeric(li.quantity).ok /\ Numeric(li.unit_price).ok /\ Numeric(li.total).ok

\* SELECT id FROM documents WHERE filename = %s; fetchone(): 0 for None
SelectId(view, filename) ==
    IF \E d \in view.docs : d.filename = filename
    THEN (CHOOSE d \in view.docs : d.filename = filename).id
    ELSE 0

\* UPDATE documents SET document_id, name, description WHERE id = doc_id
UpdateDocument(t, view, doc_id, doc) ==
    [t EXCEPT !.updDocs =
        {d \in t.updDocs : d.id # doc_id} \cup
        {[d EXCEPT !.document_id = doc.document_id, !.name = doc.name,
                   !.description = doc.description] :
            d \in {x \in view.docs \ t.insDocs : x.id = doc_id}},
     !.insDocs =
        {IF d.id = doc_id
         THEN [d EXCEPT !.document_id = doc.document_id, !.name = doc.name,
                        !.description = doc.description]
         ELSE d : d \in t.insDocs}]

KeepLineItems(t, view, doc_id) == t

\* DELETE FROM line_items WHERE document_id = doc_id
DeleteLineItems(t, view, doc_id) ==
    LET gone == {i \in view.items : i.document_id = doc_id}
    IN  [t EXCEPT !.delItems = @ \cup (Ids(gone) \ Ids(t.insItems)),
                  !.insItems = @ \ gone]

\* INSERT INTO documents (...) VALUES (...) RETURNING id
InsertDocument(t, id, filename, doc) ==
    [t EXCEPT !.insDocs = @ \cup
        {[id |-> id, filename |-> filename, document_id |-> doc.document_id,
          name |-> doc.name, description |-> doc.description]}]

LineItemRowOwnId(id, doc_id, k, li) ==
    [id |-> id, document_id |-> id] @@ Stored(li)

\* the row of INSERT INTO line_items (document_id, item, ...) for the k-th item
LineItemRow(id, doc_id, k, li) ==
    [id |-> id, document_id |-> doc_id] @@ Stored(li)

RECURSIVE InsertLineItems(_, _, _, _, _)
\* the loop over doc['line_items'] from item k on: [raised, tx, nextItem]
InsertLineItems(t, doc_id, lis, k, nextItem) ==
    IF k > Len(lis) THEN [raised |-> FALSE, tx |-> t, nextItem |-> nextItem]
    ELSE IF ~Fits(lis[k]) THEN [raised |-> TRUE, tx |-> t, nextItem |-> nextItem]
    ELSE InsertLineItems(
            [t EXCEPT !.insItems = @ \cup {LineItemRow(nextItem, doc_id, k, lis[k])}],
            doc_id, lis, k + 1, nextItem + 1)

----------------------------------------------------------------------------
(* run_etl, as run by the /trigger route and by the SQS listener thread.   *)

\* responses of the model to the extraction prompt
TextA == <<"p", "{", "m", "l", "[", "{", "w", "}", "]", "}", "p">>
TextB == <<"{", "m2", "l", "[", "{", "g", "}", "{", "w", "}", "]", "}", "{", "m", "}">>
TextBig == <<"{", "m", "l", "[", "{", "w", "}", "{", "big", "}", "]", "}">>
TextNone == <<"p", "{", "m", "p">>
TextMalformed == <<"{", "p", "}">>
TextBool == <<"{", "m", "l", "[", "{", "tq", "}", "]", "}">>

Texts == {TextA, TextB, TextBig, TextNone, TextMalformed, TextBool}

\* what the two calls of an iteration (s3.get_object, bedrock.invoke_model)
\* give: an exception, or the text of the response
Responses ==
    {[failed |-> TRUE, text |-> <<>>]} \cup {[failed |-> FALSE, text |-> x] : x \in Texts}

\* results[key] = value on a dict kept as a sequence of <<key, value>> in
\* insertion order
DictSet(d, k, v) ==
    IF \E j \in 1..Len(d) : d[j][1] = k
    THEN [j \in 1..Len(d) |-> IF d[j][1] = k THEN <<k, v>> ELSE d[j]]
    ELSE Append(d, <<k, v>>)

RECURSIVE ExtractFrom(_, _, _, _)
\* Extract.extract_text_from_images from image i on
ExtractFrom(images, resp, i, results) ==
    IF i > Len(images) THEN [raised |-> FALSE, cause |-> "", val |-> results]
    ELSE IF resp[i].failed THEN [raised |-> TRUE, cause |-> "extract", val |-> <<>>]
    ELSE LET p == ParseResponse(resp[i].text)
         IN  IF p.kind = "raise" THEN [raised |-> TRUE, cause |-> "parse", val |-> <<>>]
             ELSE IF p.kind = "skip" THEN ExtractFrom(images, resp, i + 1, results)
             ELSE ExtractFrom(images, resp, i + 1,
                              DictSet(results, FileOf(images[i]), p.val))

\* Transform.transform
TransformAll(extracted) ==
    LET c == [j \in 1..Len(extracted) |-> CleanDocument(extracted[j][2])]
    IN  [raised |-> \E j \in 1..Len(extracted) : c[j].raised,
         val |-> [j \in 1..Len(extracted) |-> <<extracted[j][1], c[j].val>>]]

\* the batches each trigger hands to run_etl
BatchesOf(r) ==
    IF r = "trigger" THEN {<<"000", "001">>}
    ELSE {<<"000">>, <<"001", "000">>, <<"001", "001">>}

Store == [docs |-> docs, items |-> items]

\* where a run is once an exception has left run_etl: the route's except
\* block answers the request; the listener thread ends
AfterRaise(r) == IF r = "trigger" THEN "idle" ELSE "dead"

\* an exception leaves run_etl: its locals (transformed_data) are gone;
\* pos stays at the document load() was at
Failed(r, c) ==
    /\ pc' = [pc EXCEPT ![r] = AfterRaise(r)]
    /\ outcome' = [outcome EXCEPT ![r] = "failure"]
    /\ cause' = [cause EXCEPT ![r] = c]
    /\ transformed' = [transformed EXCEPT ![r] = <<>>]
    /\ existing' = [existing EXCEPT ![r] = <<>>]

\* run_etl goes on to `at`
Running(r, at) ==
    /\ pc' = [pc EXCEPT ![r] = at]
    /\ UNCHANGED <<outcome, cause, transformed>>

\* extractor.extract_text_from_images(images), then
\* transformer.transform(extracted_data): what was raised, or transformed_data
Prepare(images, resp) ==
    The({IF e.raised THEN [raised |-> TRUE, cause |-> e.cause, val |-> <<>>]
         ELSE The({IF t.raised THEN [raised |-> TRUE, cause |-> "transform", val |-> <<>>]
                   ELSE [raised |-> FALSE, cause |-> "", val |-> t.val] :
                   t \in {TransformAll(e.val)}}) :
         e \in {ExtractFrom(images, resp, 1, <<>>)}})

AllBatches == UNION {BatchesOf(r) : r \in Runs}

\* the outcomes of the first two stages on a batch, over every response of
\* the model to each image
Prepared ==
    [images \in AllBatches |->
        {Prepare(images, resp) : resp \in [1..Len(images) -> Responses]}]

\* what Load() does: it returns, psycopg2.connect raises (no connection is
\* made), or a statement of _create_tables or its commit raises (the
\* connection is open)
LoadInits == {"ok", "connect", "schema"}

\* A trigger calls run_etl(images): Extract and Transform run, then Load()
\* connects and creates the tables.
StartRun(r) ==
    /\ pc[r] = "idle"
    /\ started < MaxBatches
    /\ \E images \in BatchesOf(r) : \E p \in Prepared[images] : \E init \in LoadInits :
        /\ p.raised => init = "ok"
        /\ IF p.raised THEN Failed(r, p.cause)
           ELSE IF init # "ok" THEN Failed(r, init)
           ELSE /\ pc' = [pc EXCEPT ![r] = IF p.val = <<>> THEN "commit" ELSE "select"]
                /\ outcome' = [outcome EXCEPT ![r] = "running"]
                /\ cause' = [cause EXCEPT ![r] = ""]
                /\ transformed' = [transformed EXCEPT ![r] = p.val]
                /\ existing' = [existing EXCEPT ![r] = <<>>]
        /\ conn' = [conn EXCEPT ![r] =
                        IF p.raised \/ init = "connect" THEN "none" ELSE "open"]
    /\ started' = started + 1
    /\ pos' = [pos EXCEPT ![r] = 1]
    /\ UNCHANGED <<docs, items, nextDocId, nextItemId, tx>>
    /\ UNCHANGED pureVars

\* the SELECT at the head of the loop body
SelectDoc(r) ==
    /\ pc[r] = "select"
    /\ existing' = [existing EXCEPT ![r] =
            Append(@, SelectId(View(Store, tx[r]), transformed[r][pos[r]][1]))]
    /\ Running(r, "write")
    /\ UNCHANGED <<docs, items, nextDocId, nextItemId, pos, tx, conn, started>>
    /\ UNCHANGED pureVars

\* connection o holds the row lock of an uncommitted UPDATE or INSERT of the row
RowLockedBy(o, id) == id \in Ids(tx[o].updDocs) \cup Ids(tx[o].insDocs)

\* connection o has an uncommitted INSERT of the same filename
InsertHeldBy(o, filename) ==
    UniqueFilename /\ \E d \in tx[o].insDocs : d.filename = filename

\* the statement run r is at waits for a lock of run o
WaitsFor(r, o) ==
    /\ r # o
    /\ pc[r] = "write"
    /\ LET id == existing[r][Len(existing[r])]
       IN  IF id # 0 THEN RowLockedBy(o, id)
           ELSE InsertHeldBy(o, transformed[r][pos[r]][1])

\* the rest of the loop body for the document at pos: [raised, tx, nextDoc, nextItem]
ExecuteDocument(r) ==
    LET f == transformed[r][pos[r]][1]
        doc == transformed[r][pos[r]][2]
        id == existing[r][Len(existing[r])]
    IN  IF id # 0
        THEN LET t1 == UpdateDocument(tx[r], View(Store, tx[r]), id, doc)
                 t2 == DeleteLineItems(t1, View(Store, t1), id)
                 w == InsertLineItems(t2, id, doc.line_items, 1, nextItemId)
             IN  [raised |-> w.raised, tx |-> w.tx, nextDoc |-> nextDocId,
                  nextItem |-> w.nextItem]
        ELSE IF UniqueFilename /\ \E d \in View(Store, tx[r]).docs : d.filename = f
        THEN [raised |-> TRUE, tx |-> tx[r], nextDoc |-> nextDocId,
              nextItem |-> nextItemId]
        ELSE LET t1 == InsertDocument(tx[r], nextDocId, f, doc)
                 w == InsertLineItems(t1, nextDocId, doc.line_items, 1, nextItemId)
             IN  [raised |-> w.raised, tx |-> w.tx, nextDoc |-> nextDocId + 1,
                  nextItem |-> w.nextItem]

\* the committed store becomes `store` by a commit of run r
Commits(r, store) ==
    /\ docs' = store.docs
    /\ items' = store.items

\* UPDATE and DELETE, or INSERT, then the INSERTs of the line items
WriteDoc(r) ==
    /\ pc[r] = "write"
    /\ \A o \in Runs : ~WaitsFor(r, o)
    /\ LET w == ExecuteDocument(r)
       IN  /\ nextDocId' = w.nextDoc
           /\ nextItemId' = w.nextItem
           /\ Commits(r, IF Autocommit THEN View(Store, w.tx) ELSE Store)
           /\ IF w.raised
              THEN /\ Failed(r, "load")
                   /\ tx' = [tx EXCEPT ![r] = EmptyTx]
                   /\ pos' = pos
              ELSE /\ Running(r, IF pos[r] + 1 > Len(transformed[r]) THEN "commit"
                                 ELSE "select")
                   /\ tx' = [tx EXCEPT ![r] = IF Autocommit THEN EmptyTx ELSE w.tx]
                   /\ pos' = [pos EXCEPT ![r] = @ + 1]
                   /\ existing' = existing
    /\ UNCHANGED <<conn, started>>
    /\ UNCHANGED pureVars

\* two runs wait for each other's lock: the server ends one of the two
\* statements with "deadlock detected"
DeadlockAbort(r) ==
    /\ \E o \in Runs : WaitsFor(r, o) /\ WaitsFor(o, r)
    /\ Failed(r, "load")
    /\ tx' = [tx EXCEPT ![r] = EmptyTx]
    /\ UNCHANGED <<docs, items, nextDocId, nextItemId, pos, conn, started>>
    /\ UNCHANGED pureVars

\* a statement of the loop body raises (the connection is lost): the
\* server ends the transaction without committing it
ExecFail(r) ==
    /\ pc[r] \in {"select", "write"}
    /\ Failed(r, "load")
    /\ tx' = [tx EXCEPT ![r] = EmptyTx]
    /\ UNCHANGED <<docs, items, nextDocId, nextItemId, pos, conn, started>>
    /\ UNCHANGED pureVars

\* self.conn.commit() raises: nothing is committed
CommitFail(r) ==
    /\ pc[r] = "commit"
    /\ Failed(r, "commit")
    /\ tx' = [tx EXCEPT ![r] = EmptyTx]
    /\ pos' = [pos EXCEPT ![r] = 1]
    /\ UNCHANGED <<docs, items, nextDocId, nextItemId, conn, started>>
    /\ UNCHANGED pureVars

\* self.conn.commit() after the loop
Commit(r) ==
    /\ pc[r] = "commit"
    /\ Commits(r, View(Store, tx[r]))
    /\ tx' = [tx EXCEPT ![r] = EmptyTx]
    /\ Running(r, "close")
    /\ UNCHANGED <<nextDocId, nextItemId, pos, existing, conn, started>>
    /\ UNCHANGED pureVars

\* loader.close(), then Analyze().analyze() and save_report return and
\* run_etl returns
Finish(r) ==
    /\ pc[r] = "close"
    /\ conn' = [conn EXCEPT ![r] = "closed"]
    /\ pc' = [pc EXCEPT ![r] = "idle"]
    /\ outcome' = [outcome EXCEPT ![r] = "success"]
    /\ transformed' = [transformed EXCEPT ![r] = <<>>]
    /\ pos' = [pos EXCEPT ![r] = 1]
    /\ existing' = [existing EXCEPT ![r] = <<>>]
    /\ UNCHANGED <<docs, items, nextDocId, nextItemId, tx, cause, started>>
    /\ UNCHANGED pureVars

\* loader.close(), then the connection or the model call of Analyze raises
AnalyzeFail(r) ==
    /\ pc[r] = "close"
    /\ conn' = [conn EXCEPT ![r] = "closed"]
    /\ Failed(r, "analyze")
    /\ pos' = [pos EXCEPT ![r] = 1]
    /\ UNCHANGED <<docs, items, nextDocId, nextItemId, tx, started>>
    /\ UNCHANGED pureVars

\* the interpreter finalises the Load object a raise left behind, which
\* closes its connection; nothing in the program makes this happen
Reclaim(r) ==
    /\ pc[r] \in {"idle", "dead"}
    /\ conn[r] = "open"
    /\ conn' = [conn EXCEPT ![r] = "closed"]
    /\ UNCHANGED <<docs, items, nextDocId, nextItemId, pc, transformed, pos, existing, tx,
                   outcome, cause, started>>
    /\ UNCHANGED pureVars

InitPure == fn = "none" /\ arg = <<>> /\ res = <<>>

InitEtl ==
    /\ docs = {}
    /\ items = {}
    /\ nextDocId = 1
    /\ nextItemId = 1
    /\ pc = [r \in Runs |-> "idle"]
    /\ transformed = [r \in Runs |-> <<>>]
    /\ pos = [r \in Runs |-> 1]
    /\ existing = [r \in Runs |-> <<>>]
    /\ tx = [r \in Runs |-> EmptyTx]
    /\ conn = [r \in Runs |-> "none"]
    /\ outcome = [r \in Runs |-> "none"]
    /\ cause = [r \in Runs |-> ""]
    /\ started = 0

Init == InitPure /\ InitEtl

Next ==
    \E r \in Runs :
        \/ StartRun(r)
        \/ SelectDoc(r)
        \/ WriteDoc(r)
        \/ DeadlockAbort(r)
        \/ ExecFail(r)
        \/ Commit(r)
        \/ CommitFail(r)
        \/ Finish(r)
        \/ AnalyzeFail(r)
        \/ Reclaim(r)

Spec == Init /\ [][Next]_vars

----------------------------------------------------------------------------
(* The pure functions applied to bounded inputs.                           *)

SeqsUpTo(S, n) == UNION {[1..k -> S] : k \in 0..n}

ParseChars == {"{", "}", "p", "k", "m"}

ApplyParseResponse ==
    /\ fn = "none"
    /\ \E text \in SeqsUpTo(ParseChars, MaxTextLen) :
        /\ fn' = "parse"
        /\ arg' = text
        /\ res' = ParseResponse(text)
    /\ UNCHANGED etlVars

NextParse == ApplyParseResponse

SpecParse == Init /\ [][NextParse]_vars

TextChars == {" ", "\n", "a", "b"}
NumChars == {"1", "0", "5", ",", ".", "-", "$"}

TextInputs ==
    {Str(x) : x \in SeqsUpTo(TextChars, MaxStrLen)}
    \cup {Str(NA), Str(<<" ">> \o NA), Null, BoolV(TRUE), BoolV(FALSE), IntV(0), IntV(-12),
          FloatV(25, 1), FloatV(5, 2), ListV(<<>>), ListV(<<Str(<<"a">>), IntV(1)>>),
          DictV(EmptyDict), DictV([qty |-> Str(<<"a", " ">>)])}

NumInputs ==
    {Str(x) : x \in SeqsUpTo(NumChars, MaxStrLen)}
    \cup {Null, BoolV(TRUE), BoolV(FALSE), IntV(0), IntV(-12), FloatV(25, 1),
          FloatV(-5, 3), FloatV(3, 0), ListV(<<IntV(1)>>), DictV([qty |-> IntV(1)])}

\* the values a key of a document is given, "absent" for a missing key
TextOptions == {Str(<<"absent">>), Str(<<"x">>), Str(<<" ">>), Null}
ItemOptions ==
    {Str(<<"absent">>), Str(<<"j">>),
     ListV(<<DictV([name |-> Str(<<"W">>), qty |-> Str(<<"2">>),
                    price |-> Str(<<"1", "0", ",", "5", "0">>)])>>),
     ListV(<<IntV(5), DictV([item |-> Null, quantity |-> BoolV(TRUE),
                             total |-> Str(<<"1", ".", "2", ".", "3">>)])>>)}
DocKeys == {"document_id", "id", "name", "supplier", "line_items", "items"}
OptionsOf(k) == IF k \in {"line_items", "items"} THEN ItemOptions ELSE TextOptions

DocInputs ==
    {[k \in {x \in DocKeys : c[x] # Str(<<"absent">>)} |-> c[k]] :
        c \in {c \in [DocKeys -> TextOptions \cup ItemOptions] :
                \A k \in DocKeys : c[k] \in OptionsOf(k)}}

ApplyCleanText ==
    /\ fn = "none"
    /\ \E v \in TextInputs :
        /\ fn' = "clean_text"
        /\ arg' = v
        /\ res' = CleanText(v)
    /\ UNCHANGED etlVars

ApplyToDecimal ==
    /\ fn = "none"
    /\ \E v \in NumInputs :
        /\ fn' = "to_decimal"
        /\ arg' = v
        /\ res' = ToDecimal(v)
    /\ UNCHANGED etlVars

ApplyCleanDocument ==
    /\ fn = "none"
    /\ \E d \in DocInputs :
        /\ fn' = "clean_document"
        /\ arg' = d
        /\ res' = CleanDocument(d)
    /\ UNCHANGED etlVars

NextTransform == ApplyCleanText \/ ApplyToDecimal \/ ApplyCleanDocument

SpecTransform == Init /\ [][NextTransform]_vars

----------------------------------------------------------------------------
(* Properties.                                                             *)

LoadPcs == {"select", "write", "commit"}

\* the filenames of the batch run r is loading
BatchFiles(r) == {transformed[r][i][1] : i \in 1..Len(transformed[r])}

ItemsOf(its, id) == {i \in its : i.document_id = id}

RECURSIVE InIdOrder(_)
\* line_items rows in the order of their ids, without id and document_id
InIdOrder(rows) ==
    IF rows = {} THEN <<>>
    ELSE LET m == CHOOSE x \in rows : \A y \in rows : x.id <= y.id
         IN  <<[item |-> m.item, quantity |-> m.quantity,
                unit_price |-> m.unit_price, total |-> m.total]>>
             \o InIdOrder(rows \ {m})

\* the line_items rows a document's line items are stored as
StoredItems(doc) == [k \in 1..Len(doc.line_items) |-> Stored(doc.line_items[k])]

\* C1: the committed documents table never holds two rows with the same
\* filename, whatever batches were loaded, repeated or run side by side.
C1_OneRowPerFilename ==
    \A a, b \in docs : a.filename = b.filename => a = b

\* C1 witness: a batch that reloaded an existing filename has been committed
\* and the table holds both filenames.
C1_Reloaded ==
    /\ Cardinality(docs) = 2
    /\ \E r \in Runs : /\ pc[r] = "close"
                       /\ \E i \in 1..Len(existing[r]) : existing[r][i] # 0

\* C2: when load commits a batch, every document of it whose filename
\* already had a row has exactly one row afterwards, the same row, with the
\* document_id, name and description of the new document and with exactly
\* the new document's line items (as DECIMAL(10,2) values, in order); the
\* rows and line items of documents outside the batch are as they were.
C2_ReloadReplaces ==
    [][\A r \in Runs :
        (pc[r] = "commit" /\ pc'[r] = "close") =>
            /\ \A i \in 1..Len(transformed[r]) :
                existing[r][i] # 0 =>
                    LET f == transformed[r][i][1]
                        doc == transformed[r][i][2]
                    IN  /\ Cardinality({d \in docs' : d.filename = f}) = 1
                        /\ \A d \in docs' :
                            d.filename = f =>
                                /\ d.id = existing[r][i]
                                /\ d.document_id = doc.document_id
                                /\ d.name = doc.name
                                /\ d.description = doc.description
                                /\ InIdOrder(ItemsOf(items', d.id)) = StoredItems(doc)
            /\ \A d \in docs :
                d.filename \notin BatchFiles(r) =>
                    /\ d \in docs'
                    /\ ItemsOf(items', d.id) = ItemsOf(items, d.id)]_vars

\* C2 witness: a committed batch reloaded a document that has line items,
\* while another document with line items was outside the batch.
C2_ReloadedWithItems ==
    \E r \in Runs :
        /\ pc[r] = "close"
        /\ \E i \in 1..Len(existing[r]) :
            existing[r][i] # 0 /\ transformed[r][i][2].line_items # <<>>
        /\ \E d \in docs : d.filename \notin BatchFiles(r) /\ ItemsOf(items, d.id) # {}

\* C3: the committed tables change only at the commit that ends a batch
\* whose documents were all written; a run that fails inside load leaves
\* the committed tables as they are, loses its pending writes and reports
\* failure.
C3_NoPartialCommit ==
    [][/\ (docs' # docs \/ items' # items) =>
            \E r \in Runs : /\ pc[r] = "commit"
                            /\ pc'[r] = "close"
                            /\ pos[r] > Len(transformed[r])
       /\ \A r \in Runs :
            (pc[r] \in LoadPcs /\ outcome'[r] = "failure") =>
                /\ docs' = docs
                /\ items' = items
                /\ tx'[r] = EmptyTx
                /\ pc'[r] = AfterRaise(r)]_vars

\* C3 witness: the first batch failed in load at its second document and
\* nothing is committed.
C3_FailedAtSecond ==
    \E r \in Runs :
        /\ outcome[r] = "failure"
        /\ cause[r] = "load"
        /\ pos[r] = 2
        /\ docs = {}
        /\ items = {}

\* C4 as stated: a failing extraction call for one input never fails the
\* batch.
C4_ExtractionFailureSkipped ==
    \A r \in Runs : ~(outcome[r] = "failure" /\ cause[r] = "extract")

RefsExist(store) ==
    \A i \in store.items : \E d \in store.docs : d.id = i.document_id

\* C5: every line_items row references an existing documents row, in the
\* committed tables and in what each connection sees between its statements.
C5_ItemsReferenceDocuments ==
    /\ RefsExist(Store)
    /\ \A r \in Runs : RefsExist(View(Store, tx[r]))

\* C5 witness: inside a batch, a reprocessed document's old line items are
\* deleted and new ones inserted, not yet committed.
C5_MidReprocess ==
    \E r \in Runs : tx[r].delItems # {} /\ tx[r].insItems # {} /\ tx[r].updDocs # {}

\* C6 as stated: at most one run of run_etl is between its start and the
\* end of its commit.
C6_OneRunAtATime ==
    Cardinality({r \in Runs : pc[r] \in LoadPcs}) <= 1

\* C7 as stated: numeric coercion and the cleaning of a document never raise.
C7_TransformNeverRaises ==
    fn \in {"to_decimal", "clean_document"} => ~res.raised

RECURSIVE Depth(_, _, _)
\* the brace depth after text[a..b]
Depth(text, a, b) ==
    IF b < a THEN 0
    ELSE Depth(text, a, b - 1)
         + (IF text[b] = "{" THEN 1 ELSE IF text[b] = "}" THEN -1 ELSE 0)

\* s is the first "{" of text and e the first index at which the depth
\* counted from s is back to zero
Closes(text, s, e) ==
    /\ s <= e
    /\ text[s] = "{"
    /\ \A j \in 1..(s - 1) : text[j] # "{"
    /\ Depth(text, s, e) = 0
    /\ \A j \in s..(e - 1) : Depth(text, s, j) > 0

Balanced(text) == \E s, e \in 1..Len(text) : Closes(text, s, e)

\* C8 as stated: a span whose depth returns to zero is always parsed and
\* recorded; a text without one is recorded as not found.
C8_BalancedSpanRecorded ==
    fn = "parse" =>
        /\ \A s, e \in 1..Len(arg) :
            Closes(arg, s, e) => res.kind = "ok" /\ res.span = SubSeq(arg, s, e)
        /\ ~Balanced(arg) => res.kind = "skip"

\* C8, amended: the span handed to json.loads is exactly the one from the
\* first "{" to the "}" at which the depth is back to zero; its value is
\* recorded when it is valid JSON, and otherwise the parse error is raised;
\* a text with no "{" or whose depth never returns to zero records nothing.
C8_SpanParsedOrRaised ==
    fn = "parse" =>
        /\ \A s, e \in 1..Len(arg) :
            Closes(arg, s, e) =>
                /\ res.span = SubSeq(arg, s, e)
                /\ res.kind = (IF JsonLoads(SubSeq(arg, s, e)).ok THEN "ok" ELSE "raise")
                /\ res.val = JsonLoads(SubSeq(arg, s, e)).val
        /\ ~Balanced(arg) => res.kind = "skip"

\* C8 witness: prose, then an object that is recorded, then a second
\* object that is ignored.
C8_FirstOfTwo ==
    /\ fn = "parse"
    /\ res.kind = "ok"
    /\ arg[1] # "{"
    /\ Cardinality({i \in 1..Len(arg) : arg[i] = "{"}) = 2
    /\ Len(res.span) < Len(arg) - 1

\* C9 as stated: once a run of the pipeline has ended, by returning or by
\* raising, the connection its Load opened is closed.
C9_ConnectionReleased ==
    \A r \in Runs : pc[r] \in {"idle", "dead"} => conn[r] # "open"

\* C10 as stated: cleaned text is the sentinel or a non-empty string with
\* no whitespace at its ends and no whitespace but single spaces inside.
C10_CleanTextNeverEmpty ==
    fn = "clean_text" =>
        \/ res = NA
        \/ /\ res # <<>>
           /\ res[1] \notin Whitespace
           /\ res[Len(res)] \notin Whitespace
           /\ \A i \in 1..Len(res) : res[i] \in Whitespace => res[i] = " "
           /\ \A i \in 1..(Len(res) - 1) :
                ~(res[i] \in Whitespace /\ res[i + 1] \in Whitespace)

====
